---- MODULE Spec2Model ----
(***************************************************************************)
(* BookCourier REST server (src/index.js): the five persistence            *)
(* collections, the authentication / role gates and the route handlers,    *)
(* each handler one atomic action (requests that do not overlap); POST     *)
(* /wishlist is also modelled await by await, for requests that overlap.   *)
(*                                                                         *)
(* src/index.js holds two snapshots of the server.  The handlers are       *)
(* modelled from the first, gated snapshot (lines 1-752).                   *)
(***************************************************************************)
EXTENDS Integers, Sequences, FiniteSets, TLC

\* ------------------------------------------------------- values and inputs
\* A field the document does not carry (JavaScript undefined).
Absent == "absent"
\* The same, for a numeric field.
AbsentNum == -1

\* Emails that credentials are bound to and that requests name.
Emails == {"a@x", "b@x"}
\* Emails that hold a valid credential and have no user record at start-up.
Newcomers == {"c@x", "d@x"}
\* The authorization header: no token, a token the identity provider
\* rejects, or a valid token bound to an email.
Credentials == Emails \cup {"missing", "invalid"}

\* An id as the client spells it in a path or a body.  n >= 1: the 24 hex
\* digits of ObjectId number n, in lower case (up = FALSE) or in upper case
\* (up = TRUE); n = 0: a string that is no 24-digit hex string; n = -1: no
\* string at all.
IdStr(i, u) == [n |-> i, up |-> u]
Malformed == IdStr(0, FALSE)
NoId == IdStr(-1, FALSE)
IdStrings(max) == {IdStr(i, u) : i \in 1..max, u \in BOOLEAN}

\* new ObjectId(s) throws unless s spells an id (n = 0 stands for the
\* strings that spell none); it reads the 24 hex digits in either case, so
\* both spellings of n name the same document.
ObjectIdThrows(s) == s.n < 1
ObjectId(s) == s.n
\* ObjectId.toHexString() writes lower-case digits.
toHexString(i) == IdStr(i, FALSE)

\* ------------------------------------------------------------------- state
VARIABLES
    users,      \* usersCollection: sequence of [email, role]; index = _id
    books,      \* booksCollection: index = _id, live = FALSE once deleted
    orders,     \* ordersCollection: index = _id, live = FALSE once deleted
    reviews,    \* reviewsCollection: sequence of [bookId, userId, rating]
    wishlist,   \* wishlistCollection: index = _id, live = FALSE once deleted
    req,        \* the request handled last
    resp,       \* the response sent for it
    pending     \* the requests in flight: handlers waiting at an await

vars == <<users, books, orders, reviews, wishlist, req, resp, pending>>
db == <<users, books, orders, reviews, wishlist>>

\* seller_email is the document's seller_libarien.email.  bookTitle and
\* authorName are sequences of characters, empty when the document has
\* none.  rating is in tenths; rating_str tells that it is stored as a
\* string (what toFixed returns) and not as a number.
NoBook == [live |-> FALSE, status |-> Absent, bookTitle |-> << >>,
           authorName |-> << >>, category |-> Absent,
           librarianEmail |-> Absent, seller_email |-> Absent,
           rating |-> AbsentNum, rating_str |-> FALSE,
           reviewCount |-> AbsentNum]
NoOrder == [live |-> FALSE, bookId |-> NoId, email |-> Absent,
            status |-> Absent, payment_status |-> Absent,
            stripeSessionId |-> Absent]
NoWish == [live |-> FALSE, userEmail |-> Absent, bookId |-> NoId]

\* A request and a response, in one shape for every route.  ext is what the
\* payment broker does when the handler calls it; ids are the _ids of the
\* documents a listing returns.
Request(route, cred, id, email, str, num) ==
    [route |-> route, cred |-> cred, id |-> id, email |-> email,
     str |-> str, num |-> num, ext |-> Absent]
Response(status, reason, n1, n2) ==
    [status |-> status, reason |-> reason, n1 |-> n1, n2 |-> n2, ids |-> {}]
\* The response of a listing.
Listing(reason, ids) ==
    [Response(200, reason, Cardinality(ids), 0) EXCEPT !.ids = ids]
\* status 0: the handler threw outside any try block and sent nothing.
Status(code, reason) == Response(code, reason, 0, 0)

\* The database at start-up: an administrator and a plain user are
\* registered, the other collections are empty.
Init ==
    /\ users = << [email |-> "a@x", role |-> "admin"],
                  [email |-> "b@x", role |-> "user"] >>
    /\ books = << >>
    /\ orders = << >>
    /\ reviews = << >>
    /\ wishlist = << >>
    /\ req = Request("start", "missing", NoId, Absent, Absent, 0)
    /\ resp = Status(0, "start")
    /\ pending = << >>

\* ------------------------------------------------------------------- gates
\* verifyJWT: the email the token is bound to, when the token verifies.
verifyJWT(cred) == cred \in Emails \cup Newcomers

\* getUserRole: the stored role of the first record with that email.
getUserRole(email) ==
    IF \E i \in 1..Len(users) : users[i].email = email
    THEN users[CHOOSE i \in 1..Len(users) :
                 /\ users[i].email = email
                 /\ \A j \in 1..(i - 1) : users[j].email # email].role
    ELSE "none"

\* verifyAdmin letting every role but user through.
verifyAdminLax(cred) == getUserRole(cred) \in {"librarian", "admin"}
verifyAdmin(cred) == getUserRole(cred) = "admin"
verifyLibrarian(cred) == getUserRole(cred) \in {"librarian", "admin"}

\* The gates with the role looked up before the token is verified.
GateRoleFirst(gate, cred) ==
    IF gate = "admin" /\ ~verifyAdmin(cred) THEN Status(403, "Forbidden")
    ELSE IF gate = "librarian" /\ ~verifyLibrarian(cred)
         THEN Status(403, "Forbidden")
    ELSE IF ~verifyJWT(cred) THEN Status(401, "Unauthorized")
    ELSE Status(200, "pass")
\* The response of the gates in front of a handler, or "pass".
\* gate is "jwt", "librarian" or "admin".
Gate(gate, cred) ==
    IF ~verifyJWT(cred) THEN Status(401, "Unauthorized")
    ELSE IF gate = "admin" /\ ~verifyAdmin(cred) THEN Status(403, "Forbidden")
    ELSE IF gate = "librarian" /\ ~verifyLibrarian(cred)
         THEN Status(403, "Forbidden")
    ELSE Status(200, "pass")
Passes(gate, cred) == Gate(gate, cred).reason = "pass"

\* --------------------------------------------------------- store helpers
LiveBook(i) == i \in 1..Len(books) /\ books[i].live
LiveOrder(i) == i \in 1..Len(orders) /\ orders[i].live

\* updateOne(..., {$set: body}): the fields the body carries replace the
\* document's; body is a function on some of the document's fields.
SetFields(doc, body) ==
    [f \in DOMAIN doc |-> IF f \in DOMAIN body THEN body[f] ELSE doc[f]]

\* A handler that answers without writing to any collection.
Reply(r) == resp' = r /\ UNCHANGED db

\* ------------------------------------------------------------------- users
\* POST /users keeping the role the body carries.
NewUserAsSent(email, role) ==
    [email |-> email, role |-> IF role = Absent THEN "user" ELSE role]
\* The record POST /users stores: {...user, role: "user"}; role is the role
\* the body carries.
NewUser(email, role) == [email |-> email, role |-> "user"]

\* POST /users (the route has no gate; insertedId 0 stands for null)
PostUsers(email, role) ==
    /\ UNCHANGED pending
    /\ req' = Request("POST /users", "missing", NoId, email, role, 0)
    /\ IF \E i \in 1..Len(users) : users[i].email = email
       THEN Reply(Response(200, "User already exists", 0, 0))
       ELSE /\ users' = Append(users, NewUser(email, role))
            /\ resp' = Response(200, "inserted", Len(users) + 1, 0)
            /\ UNCHANGED <<books, orders, reviews, wishlist>>

\* updateRole: new ObjectId(id) stands outside any try block; the response
\* carries matchedCount.
updateRole(id, newRole) ==
    IF ObjectIdThrows(id) THEN Reply(Status(0, "threw"))
    ELSE IF ObjectId(id) \notin 1..Len(users)
         THEN Reply(Response(200, "ok", 0, 0))
    ELSE /\ users' = [users EXCEPT ![ObjectId(id)].role = newRole]
         /\ resp' = Response(200, "ok", 1, 0)
         /\ UNCHANGED <<books, orders, reviews, wishlist>>

\* GET /users
GetUsers(cred) ==
    /\ UNCHANGED pending
    /\ req' = Request("GET /users", cred, NoId, Absent, Absent, 0)
    /\ Reply(IF ~Passes("admin", cred) THEN Gate("admin", cred)
             ELSE Listing("users", 1..Len(users)))

\* PATCH /users/make-librarian/:id
MakeLibrarian(cred, id) ==
    /\ UNCHANGED pending
    /\ req' = Request("PATCH /users/make-librarian/:id", cred, id, Absent,
                      Absent, 0)
    /\ IF ~Passes("admin", cred) THEN Reply(Gate("admin", cred))
       ELSE updateRole(id, "librarian")

\* PATCH /users/make-admin/:id
MakeAdmin(cred, id) ==
    /\ UNCHANGED pending
    /\ req' = Request("PATCH /users/make-admin/:id", cred, id, Absent,
                      Absent, 0)
    /\ IF ~Passes("admin", cred) THEN Reply(Gate("admin", cred))
       ELSE updateRole(id, "admin")

\* ------------------------------------------------------------------- books
\* The document insertOne stores for a request body: the fields of the body,
\* every other field absent.
BookDoc(body) == SetFields([NoBook EXCEPT !.live = TRUE], body)

\* POST /books
PostBooks(cred, body) ==
    /\ UNCHANGED pending
    /\ req' = Request("POST /books", cred, NoId, Absent, Absent, 0)
    /\ IF ~Passes("librarian", cred) THEN Reply(Gate("librarian", cred))
       ELSE /\ books' = Append(books,
                   [BookDoc(body) EXCEPT !.librarianEmail = cred])
            /\ resp' = Response(200, "inserted", Len(books) + 1, 0)
            /\ UNCHANGED <<users, orders, reviews, wishlist>>

\* GET /books.  A query q carries the parameters search (a sequence of
\* characters, empty when the parameter is missing or empty), category and
\* rating (strings, Absent when missing), page and size (numbers, AbsentNum
\* when missing).
Lower(c) == CASE c = "A" -> "a" [] c = "B" -> "b" [] c = "C" -> "c"
              [] OTHER -> c
\* {$regex: pat, $options: "i"} for a pattern of letters: text has a run of
\* characters that spells pat, whatever the case.
RegexI(text, pat) ==
    \E k \in 0..(Len(text) - Len(pat)) :
        \A j \in 1..Len(pat) : Lower(text[k + j]) = Lower(pat[j])
Undefined == <<"u", "n", "d", "e", "f", "i", "n", "e", "d">>
\* parseFloat of the rating parameters the model sends, in tenths; NaN for
\* a string that starts with no number.
NaN == -2
parseFloat(t) ==
    CASE t = "0" -> 0 [] t = "0.0" -> 0 [] t = "4" -> 40 [] t = "4.5" -> 45
      [] OTHER -> NaN
\* {rating: {$gte: x}} selects the documents whose rating is a number not
\* below x; a rating stored as a string is never selected, and no number is
\* $gte NaN.
GteRating(book, x) ==
    /\ book.rating # AbsentNum
    /\ ~book.rating_str
    /\ x # NaN
    /\ book.rating >= x

\* The documents the query object built from q selects.
find(q) ==
    {i \in 1..Len(books) :
        /\ LiveBook(i)
        /\ books[i].status = "published"
        /\ (q.search # << >> /\ q.search # Undefined)
           => \/ RegexI(books[i].bookTitle, q.search)
              \/ RegexI(books[i].authorName, q.search)
        /\ q.category \notin {Absent, "undefined", ""}
           => books[i].category = q.category
        /\ q.rating \notin {Absent, "", "0"}
           => GteRating(books[i], parseFloat(q.rating))}
\* countDocuments over the whole collection.
countDocumentsAll(q) == Cardinality({i \in 1..Len(books) : LiveBook(i)})
countDocuments(q) == Cardinality(find(q))

\* parseInt(req.query.page) || 0 and parseInt(req.query.size) || 10
DefaultSize == 10
PageOf(q) == IF q.page = AbsentNum THEN 0 ELSE q.page
SizeOf(q) == IF q.size \in {AbsentNum, 0} THEN DefaultSize ELSE q.size
\* .skip(n).limit(m) of the documents S in the order of their _ids.
SkipLimit(S, n, m) ==
    {i \in S : LET rank == Cardinality({j \in S : j <= i})
               IN  rank > n /\ rank <= n + m}

GetBooks(q) ==
    /\ UNCHANGED pending
    /\ req' = [Request("GET /books", "missing", NoId, Absent, Absent, 0)
                  EXCEPT !.ext = q]
    /\ Reply([Response(200, "books", countDocuments(q), 0) EXCEPT
                 !.ids = SkipLimit(find(q), PageOf(q) * SizeOf(q), SizeOf(q))])

\* GET /books/all
GetBooksAll(cred) ==
    /\ UNCHANGED pending
    /\ req' = Request("GET /books/all", cred, NoId, Absent, Absent, 0)
    /\ Reply(IF ~Passes("admin", cred) THEN Gate("admin", cred)
             ELSE Listing("books", {i \in 1..Len(books) : LiveBook(i)}))

\* PATCH /books/status/:id
PatchBookStatus(cred, id, status) ==
    /\ UNCHANGED pending
    /\ req' = Request("PATCH /books/status/:id", cred, id, Absent, status, 0)
    /\ IF ~Passes("librarian", cred) THEN Reply(Gate("librarian", cred))
       ELSE IF ObjectIdThrows(id) THEN Reply(Status(500, "failed"))
       ELSE IF ~LiveBook(ObjectId(id)) THEN Reply(Response(200, "ok", 0, 0))
       ELSE /\ books' = [books EXCEPT ![ObjectId(id)].status = status]
            /\ resp' = Response(200, "ok",
                   IF books[ObjectId(id)].status = status THEN 0 ELSE 1, 0)
            /\ UNCHANGED <<users, orders, reviews, wishlist>>

\* PATCH /books/:id
PatchBooks(cred, id, body) ==
    /\ UNCHANGED pending
    /\ req' = Request("PATCH /books/:id", cred, id, Absent, Absent, 0)
    /\ IF ~Passes("librarian", cred) THEN Reply(Gate("librarian", cred))
       ELSE IF ObjectIdThrows(id) THEN Reply(Status(500, "failed"))
       ELSE IF ~LiveBook(ObjectId(id)) THEN Reply(Status(404, "Book not found"))
       ELSE /\ books' = [books EXCEPT
                   ![ObjectId(id)] = SetFields(books[ObjectId(id)], body)]
            /\ resp' = Response(200, "ok",
                   IF books'[ObjectId(id)] = books[ObjectId(id)] THEN 0 ELSE 1,
                   0)
            /\ UNCHANGED <<users, orders, reviews, wishlist>>

\* deleteMany({bookId: bookId}): an order goes when its bookId is the very
\* string of the path.
OrdersMatching(id) == {i \in 1..Len(orders) : LiveOrder(i) /\ orders[i].bookId = id}

\* DELETE /books/delete/:id
DeleteBook(cred, id) ==
    /\ UNCHANGED pending
    /\ req' = Request("DELETE /books/delete/:id", cred, id, Absent, Absent, 0)
    /\ IF ~Passes("admin", cred) THEN Reply(Gate("admin", cred))
       ELSE IF ObjectIdThrows(id) THEN Reply(Status(500, "failed"))
       ELSE LET found == LiveBook(ObjectId(id))
                gone == OrdersMatching(id)
            IN  /\ books' = IF found
                            THEN [books EXCEPT ![ObjectId(id)] = NoBook]
                            ELSE books
                /\ orders' = [i \in 1..Len(orders) |->
                                 IF i \in gone THEN NoOrder ELSE orders[i]]
                /\ resp' = IF found
                           THEN Response(200, "deleted", 1, Cardinality(gone))
                           ELSE Status(404, "Book not found")
                /\ UNCHANGED <<users, reviews, wishlist>>

\* ----------------------------------------------------------------- reviews
\* The request's rating is a number in tenths (25 is 2.5); parseInt keeps
\* its integer part.
parseInt(t) == t \div 10

\* (totalRating / allReviews.length).toFixed(1), in tenths: the nearest
\* tenth, the larger one on a tie (a tie is an exact quarter for fewer than
\* 20 reviews).
toFixed1(total, n) == (20 * total + n) \div (2 * n)

ReviewsOf(rs, b) == {i \in 1..Len(rs) : rs[i].bookId = b}
RECURSIVE SumRatings(_, _)
SumRatings(rs, S) ==
    IF S = {} THEN 0
    ELSE LET i == CHOOSE x \in S : TRUE
         IN  rs[i].rating + SumRatings(rs, S \ {i})
\* The average the handler computes from the reviews it reads back.
newAverageRating(rs, b) ==
    toFixed1(SumRatings(rs, ReviewsOf(rs, b)), Cardinality(ReviewsOf(rs, b)))

\* $inc: {reviewCount: 1}; an absent field counts from 0.
IncReviewCount(c) == IF c = AbsentNum THEN 1 ELSE c + 1

\* The basic validation of the review body.
InvalidReview(bookId, userId, rating) ==
    \/ bookId = NoId
    \/ userId = Absent
    \/ rating = AbsentNum
    \/ rating < 10
    \/ rating > 50

\* A self-scope check that lets every email through.
SameEmailSkipped(email, cred) == TRUE

\* The self-scope check of a route: the email of the path or the body is
\* the email the credential is bound to.
SameEmail(email, cred) == email = cred

\* POST /reviews
PostReviews(cred, bookId, userId, rating) ==
    /\ UNCHANGED pending
    /\ req' = Request("POST /reviews", cred, bookId, userId, Absent, rating)
    /\ IF ~Passes("jwt", cred) THEN Reply(Gate("jwt", cred))
       ELSE IF ~SameEmail(userId, cred) THEN Reply(Status(403, "Forbidden"))
       ELSE IF InvalidReview(bookId, userId, rating)
            THEN Reply(Status(400, "Invalid review data"))
       ELSE IF ObjectIdThrows(bookId) THEN Reply(Status(500, "failed"))
       ELSE LET b == ObjectId(bookId)
                rs == Append(reviews, [bookId |-> b, userId |-> userId,
                                       rating |-> parseInt(rating)])
            IN  /\ reviews' = rs
                /\ books' = IF LiveBook(b)
                            THEN [books EXCEPT
                                    ![b].rating = newAverageRating(rs, b),
                                    ![b].rating_str = TRUE,
                                    ![b].reviewCount =
                                        IncReviewCount(books[b].reviewCount)]
                            ELSE books
                /\ resp' = Response(200, "inserted", Len(rs),
                                    newAverageRating(rs, b))
                /\ UNCHANGED <<users, orders, wishlist>>

\* POST /reviews await by await.  The first step runs the gate, the
\* validation and insertOne; the second is find(...).toArray(), whose answer
\* the request in flight keeps as the average computed from it (seen is the
\* length of the collection at that read: reviews are only ever appended);
\* the third is the updateOne of the book and the reply.  Other requests may
\* run in between.
PostReviewsInsert(cred, bookId, userId, rating) ==
    IF \/ ~Passes("jwt", cred)
       \/ ~SameEmail(userId, cred)
       \/ InvalidReview(bookId, userId, rating)
       \/ ObjectIdThrows(bookId)
    THEN /\ req' = Request("POST /reviews", cred, bookId, userId, Absent,
                           rating)
         /\ Reply(IF ~Passes("jwt", cred) THEN Gate("jwt", cred)
                  ELSE IF ~SameEmail(userId, cred)
                       THEN Status(403, "Forbidden")
                  ELSE IF InvalidReview(bookId, userId, rating)
                       THEN Status(400, "Invalid review data")
                  ELSE Status(500, "failed"))
         /\ UNCHANGED pending
    ELSE /\ reviews' = Append(reviews,
                [bookId |-> ObjectId(bookId), userId |-> userId,
                 rating |-> parseInt(rating)])
         /\ pending' = Append(pending,
                [step |-> "inserted", cred |-> cred, bookId |-> bookId,
                 userId |-> userId, rating |-> rating,
                 insertedId |-> Len(reviews) + 1, seen |-> 0,
                 newAverageRating |-> AbsentNum])
         /\ UNCHANGED <<users, books, orders, wishlist, req, resp>>

PostReviewsFind(k) ==
    /\ pending[k].step = "inserted"
    /\ pending' = [pending EXCEPT
                      ![k].step = "read",
                      ![k].seen = Len(reviews),
                      ![k].newAverageRating =
                          newAverageRating(reviews, ObjectId(pending[k].bookId))]
    /\ UNCHANGED <<db, req, resp>>

\* An update that computes the average from the reviews stored when it
\* runs.
ratingSetFresh(p, rs) == newAverageRating(rs, ObjectId(p.bookId))

\* $set: { rating: newAverageRating }: the value the request computed from
\* its own read, whatever the collection rs holds by now.
ratingSet(p, rs) == p.newAverageRating

PostReviewsUpdateBook(k) ==
    LET p == pending[k]
        b == ObjectId(p.bookId)
    IN  /\ p.step = "read"
        /\ pending' = [j \in 1..(Len(pending) - 1) |->
                          IF j < k THEN pending[j] ELSE pending[j + 1]]
        /\ req' = Request("POST /reviews", p.cred, p.bookId, p.userId,
                          Absent, p.rating)
        /\ books' = IF LiveBook(b)
                    THEN [books EXCEPT
                            ![b].rating = ratingSet(p, reviews),
                            ![b].rating_str = TRUE,
                            ![b].reviewCount =
                                IncReviewCount(books[b].reviewCount)]
                    ELSE books
        /\ resp' = Response(200, "inserted", p.insertedId,
                            p.newAverageRating)
        /\ UNCHANGED <<users, orders, reviews, wishlist>>

\* GET /user-can-review/:bookId/:userEmail
UserCanReview(bookId, userEmail) ==
    /\ UNCHANGED pending
    /\ req' = Request("GET /user-can-review", "missing", bookId, userEmail,
                      Absent, 0)
    /\ UNCHANGED db
    /\ LET hasOrdered == \E i \in 1..Len(orders) :
                             /\ LiveOrder(i)
                             /\ orders[i].bookId = bookId
                             /\ orders[i].email = userEmail
                             /\ orders[i].payment_status = "paid"
           hasReviewed == \E i \in 1..Len(reviews) :
                             /\ reviews[i].bookId = ObjectId(bookId)
                             /\ reviews[i].userId = userEmail
       IN  resp' = IF ~hasOrdered THEN Status(200, "NOT_ORDERED")
                   ELSE IF ObjectIdThrows(bookId) THEN Status(500, "failed")
                   ELSE IF hasReviewed THEN Status(200, "ALREADY_REVIEWED")
                   ELSE Status(200, "canReview")

\* ------------------------------------------------------------------ orders
\* POST /orders: whatever the body carries, the stored order is pending and
\* unpaid.
\* The order stored with the status fields as the body sends them.
NewOrderAsSent(body) ==
    SetFields([NoOrder EXCEPT !.live = TRUE, !.status = "pending",
                              !.payment_status = "unpaid"], body)
NewOrder(body) ==
    [SetFields([NoOrder EXCEPT !.live = TRUE], body)
        EXCEPT !.status = "pending", !.payment_status = "unpaid"]

\* The value of field f of a request body, Absent when it has none.
Field(body, f) == IF f \in DOMAIN body THEN body[f] ELSE Absent

\* The request records the payment_status (str) and the status (ext) its
\* body carries.
PostOrders(cred, body) ==
    /\ UNCHANGED pending
    /\ req' = [Request("POST /orders", cred, body.bookId, body.email,
                       Field(body, "payment_status"), 0)
                  EXCEPT !.ext = Field(body, "status")]
    /\ IF ~Passes("jwt", cred) THEN Reply(Gate("jwt", cred))
       ELSE IF ~SameEmail(body.email, cred)
            THEN Reply(Status(403, "Forbidden"))
       ELSE /\ orders' = Append(orders, NewOrder(body))
            /\ resp' = Response(200, "inserted", Len(orders) + 1, 0)
            /\ UNCHANGED <<users, books, reviews, wishlist>>

\* The books the librarian filter of GET /orders selects:
\* find({"seller_libarien.email": userEmail}).
librarianBooks(userEmail) ==
    {i \in 1..Len(books) : LiveBook(i) /\ books[i].seller_email = userEmail}

\* GET /orders: every order for an admin; for a librarian the orders whose
\* bookId is the toHexString of one of librarianBooks.
GetOrders(cred) ==
    /\ UNCHANGED pending
    /\ req' = Request("GET /orders", cred, NoId, Absent, Absent, 0)
    /\ Reply(IF ~Passes("librarian", cred) THEN Gate("librarian", cred)
             ELSE IF getUserRole(cred) = "admin"
                  THEN Listing("orders", {i \in 1..Len(orders) : LiveOrder(i)})
             ELSE LET bookIds == {toHexString(b) : b \in librarianBooks(cred)}
                  IN  Listing("orders", {i \in 1..Len(orders) :
                          LiveOrder(i) /\ orders[i].bookId \in bookIds}))

\* GET /librarian-orders/:email (the route has no gate)
LibrarianOrders(email) ==
    /\ UNCHANGED pending
    /\ req' = Request("GET /librarian-orders/:email", "missing", NoId, email,
                      Absent, 0)
    /\ Reply(LET bookIds == {toHexString(b) : b \in librarianBooks(email)}
             IN  Listing("orders", {i \in 1..Len(orders) :
                     LiveOrder(i) /\ orders[i].bookId \in bookIds}))

\* GET /orders/:orderId.  For an id that new ObjectId rejects the catch
\* block answers 400 when the error's name is "BSONTypeError" and 500
\* otherwise; which name the error has depends on the driver installed.
GetOrder(cred, orderId) ==
    /\ UNCHANGED pending
    /\ req' = Request("GET /orders/:orderId", cred, orderId, Absent, Absent, 0)
    /\ IF ~Passes("jwt", cred) THEN Reply(Gate("jwt", cred))
       ELSE IF ObjectIdThrows(orderId)
            THEN \E code \in {400, 500} : Reply(Status(code, "failed"))
       ELSE IF ~LiveOrder(ObjectId(orderId))
            THEN Reply(Status(404, "Order not found"))
       ELSE IF orders[ObjectId(orderId)].email # cred
            THEN Reply(Status(403, "Forbidden"))
       ELSE Reply(Response(200, "order", ObjectId(orderId), 0))

\* allowedStatuses with the status of payment confirmation let in.
allowedStatusesWide ==
    {"shipped", "delivered", "pending", "cancelled", "processing"}

\* const allowedStatuses of PATCH /orders/update-status/:id
allowedStatuses == {"shipped", "delivered", "pending", "cancelled"}

\* PATCH /orders/update-status/:id
UpdateStatus(cred, id, newStatus) ==
    /\ UNCHANGED pending
    /\ req' = Request("PATCH /orders/update-status/:id", cred, id, Absent,
                      newStatus, 0)
    /\ IF ~Passes("librarian", cred) THEN Reply(Gate("librarian", cred))
       ELSE IF newStatus \notin allowedStatuses
            THEN Reply(Status(400, "Invalid status update"))
       ELSE IF ObjectIdThrows(id) THEN Reply(Status(500, "failed"))
       ELSE IF ~LiveOrder(ObjectId(id))
            THEN Reply(Status(404, "Order not found"))
       ELSE /\ orders' = [orders EXCEPT ![ObjectId(id)].status = newStatus]
            /\ resp' = Response(200, "ok",
                   IF orders[ObjectId(id)].status = newStatus THEN 0 ELSE 1, 0)
            /\ UNCHANGED <<users, books, reviews, wishlist>>

\* A cancellation that spares an order already paid.
CancelDocUnlessPaid(doc) ==
    IF doc.payment_status = "paid" THEN doc
    ELSE [doc EXCEPT !.status = "cancelled", !.payment_status = "cancelled"]

\* The $set of PATCH /orders/cancel/:id.
CancelDoc(doc) ==
    [doc EXCEPT !.status = "cancelled", !.payment_status = "cancelled"]

\* PATCH /orders/cancel/:id: no try block, so a malformed id leaves the
\* request without a response; the update is filtered by _id alone.
OrderCancel(cred, id) ==
    /\ UNCHANGED pending
    /\ req' = Request("PATCH /orders/cancel/:id", cred, id, Absent, Absent, 0)
    /\ IF ~Passes("jwt", cred) THEN Reply(Gate("jwt", cred))
       ELSE IF ObjectIdThrows(id) THEN Reply(Status(0, "threw"))
       ELSE IF ~LiveOrder(ObjectId(id)) THEN Reply(Response(200, "ok", 0, 0))
       ELSE /\ orders' = [orders EXCEPT
                   ![ObjectId(id)] = CancelDoc(orders[ObjectId(id)])]
            /\ resp' = Response(200, "ok", 1,
                   IF orders'[ObjectId(id)] = orders[ObjectId(id)]
                   THEN 0 ELSE 1)
            /\ UNCHANGED <<users, books, reviews, wishlist>>

\* What stripe.checkout.sessions.retrieve can do for a session id.
BrokerOutcomes == {"paid", "unpaid", "throws"}

\* A settlement check that trusts the client whenever the broker answers.
SettlementCheckTrusting(sessionId, broker) ==
    IF sessionId = Absent THEN "go"
    ELSE IF broker = "throws" THEN "500"
    ELSE "go"

\* The settlement check of payment confirmation: "go" when the update may
\* run, else the status of the rejection.  sessionId is Absent when the body
\* carries none (or an empty one).
SettlementCheck(sessionId, broker) ==
    IF sessionId = Absent THEN "go"
    ELSE IF broker = "throws" THEN "500"
    ELSE IF broker # "paid" THEN "400"
    ELSE "go"

\* A payment confirmation that moves the status and leaves the payment
\* status as it was.
PaidDocStatusOnly(doc, sessionId) ==
    [doc EXCEPT !.status = "processing",
                !.stripeSessionId = IF sessionId = Absent THEN "N/A"
                                    ELSE sessionId]

\* The $set of payment confirmation (paidAt is a fresh date every time, so
\* the update always modifies the order it matches).
PaidDoc(doc, sessionId) ==
    [doc EXCEPT !.payment_status = "paid", !.status = "processing",
                !.stripeSessionId = IF sessionId = Absent THEN "N/A"
                                    ELSE sessionId]

\* PATCH /orders/payment-success/:orderId
PaymentSuccess(cred, orderId, sessionId, broker) ==
    /\ UNCHANGED pending
    /\ req' = [Request("PATCH /orders/payment-success/:orderId", cred,
                        orderId, Absent, sessionId, 0) EXCEPT !.ext = broker]
    /\ IF ~Passes("jwt", cred) THEN Reply(Gate("jwt", cred))
       ELSE IF SettlementCheck(sessionId, broker) = "400"
            THEN Reply(Status(400, "Payment session status is not paid"))
       ELSE IF SettlementCheck(sessionId, broker) = "500"
            THEN Reply(Status(500, "failed"))
       ELSE IF ObjectIdThrows(orderId) THEN Reply(Status(500, "failed"))
       ELSE IF ~LiveOrder(ObjectId(orderId))
            THEN Reply(Status(404, "Order not found or already paid"))
       ELSE /\ orders' = [orders EXCEPT
                   ![ObjectId(orderId)] =
                       PaidDoc(orders[ObjectId(orderId)], sessionId)]
            /\ resp' = Status(200, "Order updated to paid")
            /\ UNCHANGED <<users, books, reviews, wishlist>>

\* The $set of PATCH /orders/pay/:id.
PayDoc(doc) ==
    [doc EXCEPT !.payment_status = "paid", !.status = "processing"]

\* PATCH /orders/pay/:id: no gate, no settlement check and no try block; the
\* credential is not read.  The reply is the update result.
OrderPay(cred, id) ==
    /\ UNCHANGED pending
    /\ req' = Request("PATCH /orders/pay/:id", cred, id, Absent, Absent, 0)
    /\ IF ObjectIdThrows(id) THEN Reply(Status(0, "threw"))
       ELSE IF ~LiveOrder(ObjectId(id)) THEN Reply(Response(200, "ok", 0, 0))
       ELSE /\ orders' = [orders EXCEPT
                   ![ObjectId(id)] = PayDoc(orders[ObjectId(id)])]
            /\ resp' = Response(200, "ok", 1,
                   IF orders'[ObjectId(id)] = orders[ObjectId(id)]
                   THEN 0 ELSE 1)
            /\ UNCHANGED <<users, books, reviews, wishlist>>

\* ------------------------------------------------- self-scoped read routes
\* GET /users/role/:email
GetUserRole(cred, email) ==
    /\ UNCHANGED pending
    /\ req' = Request("GET /users/role/:email", cred, NoId, email, Absent, 0)
    /\ Reply(IF ~Passes("jwt", cred) THEN Gate("jwt", cred)
             ELSE IF ~SameEmail(email, cred) THEN Status(403, "Forbidden")
             ELSE IF getUserRole(email) = "none"
                  THEN Status(404, "User not found")
             ELSE Status(200, getUserRole(email)))

\* GET /my-orders/:email
GetMyOrders(cred, email) ==
    /\ UNCHANGED pending
    /\ req' = Request("GET /my-orders/:email", cred, NoId, email, Absent, 0)
    /\ Reply(IF ~Passes("jwt", cred) THEN Gate("jwt", cred)
             ELSE IF ~SameEmail(email, cred) THEN Status(403, "Forbidden")
             ELSE Response(200, "orders",
                      Cardinality({i \in 1..Len(orders) :
                          LiveOrder(i) /\ orders[i].email = email}), 0))

\* GET /my-invoices/:email
GetMyInvoices(cred, email) ==
    /\ UNCHANGED pending
    /\ req' = Request("GET /my-invoices/:email", cred, NoId, email, Absent, 0)
    /\ Reply(IF ~Passes("jwt", cred) THEN Gate("jwt", cred)
             ELSE IF ~SameEmail(email, cred) THEN Status(403, "Forbidden")
             ELSE Response(200, "invoices",
                      Cardinality({i \in 1..Len(orders) :
                          /\ LiveOrder(i)
                          /\ orders[i].email = email
                          /\ orders[i].payment_status = "paid"}), 0))

\* GET /my-books/:email.  The filter reads the field seller_libarien.email
\* of the request body POST /books stored, not the librarianEmail the
\* handler of POST /books writes.
GetMyBooks(cred, email) ==
    /\ UNCHANGED pending
    /\ req' = Request("GET /my-books/:email", cred, NoId, email, Absent, 0)
    /\ Reply(IF ~Passes("librarian", cred) THEN Gate("librarian", cred)
             ELSE IF ~SameEmail(email, cred) THEN Status(403, "Forbidden")
             ELSE Response(200, "books",
                      Cardinality({i \in 1..Len(books) :
                          LiveBook(i) /\ books[i].seller_email = email}), 0))

\* POST /create-checkout-session.  complete: the body carries orderId,
\* bookTitle, price and email; broker: what sessions.create does.
CreateCheckoutSession(cred, email, complete, broker) ==
    /\ UNCHANGED pending
    /\ req' = [Request("POST /create-checkout-session", cred, NoId, email,
                       Absent, IF complete THEN 1 ELSE 0)
                  EXCEPT !.ext = broker]
    /\ Reply(IF ~Passes("jwt", cred) THEN Gate("jwt", cred)
             ELSE IF ~SameEmail(email, cred) THEN Status(403, "Forbidden")
             ELSE IF ~complete \/ email = Absent
                  THEN Status(400, "Missing required payment details")
             ELSE IF broker = "throws" THEN Status(500, "failed")
             ELSE Status(200, "url"))

\* ---------------------------------------------------------------- wishlist
LiveWish(i) == i \in 1..Len(wishlist) /\ wishlist[i].live

\* POST /wishlist
PostWishlist(cred, userEmail, bookId) ==
    /\ UNCHANGED pending
    /\ req' = Request("POST /wishlist", cred, bookId, userEmail, Absent, 0)
    /\ IF ~Passes("jwt", cred) THEN Reply(Gate("jwt", cred))
       ELSE IF ~SameEmail(userEmail, cred)
            THEN Reply(Status(403, "Forbidden"))
       ELSE IF \E i \in 1..Len(wishlist) :
                   /\ LiveWish(i)
                   /\ wishlist[i].userEmail = userEmail
                   /\ wishlist[i].bookId = bookId
            THEN Reply(Status(400, "already in your wishlist"))
       ELSE /\ wishlist' = Append(wishlist,
                   [live |-> TRUE, userEmail |-> userEmail, bookId |-> bookId])
            /\ resp' = Response(200, "inserted", Len(wishlist) + 1, 0)
            /\ UNCHANGED <<users, books, orders, reviews>>

\* POST /wishlist await by await.  The first step runs the gate and the
\* handler up to the answer of findOne, which the request in flight keeps;
\* the second step runs the rest and answers.  Other requests may run in
\* between.
PostWishlistFind(cred, userEmail, bookId) ==
    IF ~Passes("jwt", cred) \/ ~SameEmail(userEmail, cred)
    THEN /\ req' = Request("POST /wishlist", cred, bookId, userEmail,
                           Absent, 0)
         /\ Reply(IF ~Passes("jwt", cred) THEN Gate("jwt", cred)
                  ELSE Status(403, "Forbidden"))
         /\ UNCHANGED pending
    ELSE /\ pending' = Append(pending,
                [cred |-> cred, userEmail |-> userEmail, bookId |-> bookId,
                 existing |-> \E i \in 1..Len(wishlist) :
                                 /\ LiveWish(i)
                                 /\ wishlist[i].userEmail = userEmail
                                 /\ wishlist[i].bookId = bookId])
         /\ UNCHANGED <<db, req, resp>>

PostWishlistInsert(k) ==
    LET p == pending[k]
    IN  /\ pending' = [j \in 1..(Len(pending) - 1) |->
                          IF j < k THEN pending[j] ELSE pending[j + 1]]
        /\ req' = Request("POST /wishlist", p.cred, p.bookId, p.userEmail,
                          Absent, 0)
        /\ IF p.existing THEN Reply(Status(400, "already in your wishlist"))
           ELSE /\ wishlist' = Append(wishlist,
                       [live |-> TRUE, userEmail |-> p.userEmail,
                        bookId |-> p.bookId])
                /\ resp' = Response(200, "inserted", Len(wishlist) + 1, 0)
                /\ UNCHANGED <<users, books, orders, reviews>>

\* GET /wishlist/:email
GetWishlist(cred, email) ==
    /\ UNCHANGED pending
    /\ req' = Request("GET /wishlist/:email", cred, NoId, email, Absent, 0)
    /\ Reply(IF ~Passes("jwt", cred) THEN Gate("jwt", cred)
             ELSE IF ~SameEmail(email, cred) THEN Status(403, "Forbidden")
             ELSE Response(200, "wishlist",
                      Cardinality({i \in 1..Len(wishlist) :
                          LiveWish(i) /\ wishlist[i].userEmail = email}), 0))

\* DELETE /wishlist/:id: no try block and no ownership check.
DeleteWishlist(cred, id) ==
    /\ UNCHANGED pending
    /\ req' = Request("DELETE /wishlist/:id", cred, id, Absent, Absent, 0)
    /\ IF ~Passes("jwt", cred) THEN Reply(Gate("jwt", cred))
       ELSE IF ObjectIdThrows(id) THEN Reply(Status(0, "threw"))
       ELSE IF ~LiveWish(ObjectId(id)) THEN Reply(Response(200, "ok", 0, 0))
       ELSE /\ wishlist' = [wishlist EXCEPT ![ObjectId(id)] = NoWish]
            /\ resp' = Response(200, "ok", 1, 0)
            /\ UNCHANGED <<users, books, orders, reviews>>

\* ------------------------------------------------------------ request inputs
\* Bodies of POST /books: an ordinary one, and one that carries the
\* aggregate fields itself.
PlainBook == [status |-> "published"]
BookBodies == {PlainBook, [status |-> "published", rating |-> 50, reviewCount |-> 3]}
\* Bodies of PATCH /books/:id; a rating in a JSON body is a number.
PatchBodies == {[status |-> "unpublished"],
                [rating |-> 10, rating_str |-> FALSE, reviewCount |-> 0]}
\* Bodies of POST /orders: the book and the purchaser alone, and with the
\* status fields of a delivered, paid order.
OrderBody(bookId, email) == [bookId |-> bookId, email |-> email]
PaidOrderBody(bookId, email) ==
    [bookId |-> bookId, email |-> email, status |-> "delivered",
     payment_status |-> "paid"]
\* Ratings of review bodies, in tenths: none, 0, 1, 2.5, 5 and 6.
RatingInputs == {AbsentNum, 0, 10, 25, 50, 60}
\* Ids as clients spell them: the ids 1..max in lower case, the first also
\* in upper case, and a string that is no id.
IdInputs(max) == {toHexString(i) : i \in 1..max} \cup {IdStr(1, TRUE), Malformed}
\* The same without the upper-case spelling.
PlainIdInputs(max) == {toHexString(i) : i \in 1..max} \cup {Malformed}
OrderStatusInputs == allowedStatuses \cup {"processing", Absent}
\* Two statuses update-status accepts and the two it refuses.
FewStatusInputs == {"shipped", "delivered", "processing", Absent}
\* Ratings of overlapping reviews: 1, 5 and the refused 6.
RaceRatings == {10, 50, 60}
\* A confirmation without a session id never calls the broker.
BrokerCalls == {<<Absent, "none">>} \cup {<<"cs_1", b>> : b \in BrokerOutcomes}

\* ---------------------------------------------------------- specifications
\* Each specification runs the handlers one group of routes needs, with the
\* collections capped by its own bounds and the request inputs that group
\* reads; Spec, at the end, is all of them together.

\* The order lifecycle.
OrderMaxOrders == 1

NextOrder ==
    \/ /\ Len(orders) < OrderMaxOrders
       /\ \E c \in Emails, e \in Emails :
              \/ PostOrders(c, OrderBody(toHexString(1), e))
              \/ PostOrders(c, PaidOrderBody(toHexString(1), e))
    \/ \E c \in Emails, id \in PlainIdInputs(OrderMaxOrders),
          st \in FewStatusInputs : UpdateStatus(c, id, st)
    \/ \E c \in Emails, id \in PlainIdInputs(OrderMaxOrders) :
           OrderCancel(c, id)
    \/ \E c \in Emails, id \in PlainIdInputs(OrderMaxOrders),
          call \in BrokerCalls : PaymentSuccess(c, id, call[1], call[2])
    \/ \E id \in PlainIdInputs(OrderMaxOrders) : OrderPay("missing", id)

SpecOrder == Init /\ [][NextOrder]_vars

\* The fulfilment status: every caller and every status, on orders paid or
\* not.
StatusMaxOrders == 1

NextStatus ==
    \/ /\ Len(orders) < StatusMaxOrders
       /\ \E c \in Emails : PostOrders(c, OrderBody(toHexString(1), c))
    \/ \E c \in Emails, id \in PlainIdInputs(StatusMaxOrders) :
           PaymentSuccess(c, id, Absent, "none")
    \/ \E c \in Credentials, id \in PlainIdInputs(StatusMaxOrders),
          st \in OrderStatusInputs : UpdateStatus(c, id, st)

SpecStatus == Init /\ [][NextStatus]_vars

\* Book deletion and its cascade.  Orders carry the book id as the server
\* writes it (toHexString); the path of the DELETE is the client's spelling.
DeleteMaxBooks == 2
DeleteMaxOrders == 2

NextDelete ==
    \/ /\ Len(books) < DeleteMaxBooks
       /\ \E c \in Emails : PostBooks(c, PlainBook)
    \/ /\ Len(orders) < DeleteMaxOrders
       /\ \E c \in Emails, i \in 1..DeleteMaxBooks :
              PostOrders(c, OrderBody(toHexString(i), c))
    \/ \E c \in Credentials, id \in IdInputs(DeleteMaxBooks) : DeleteBook(c, id)

SpecDelete == Init /\ [][NextDelete]_vars

\* The self-scoped routes.
SelfMaxOrders == 1
SelfMaxWishlist == 1
SelfMaxReviews == 1
EmailInputs == Emails \cup {Absent}

NextSelf ==
    \/ \E c \in Credentials, e \in EmailInputs : GetUserRole(c, e)
    \/ /\ Len(orders) < SelfMaxOrders
       /\ \E c \in Credentials, e \in EmailInputs :
              PostOrders(c, OrderBody(toHexString(1), e))
    \/ \E c \in Credentials, e \in EmailInputs : GetMyOrders(c, e)
    \/ \E c \in Credentials, e \in EmailInputs : GetMyInvoices(c, e)
    \/ \E c \in Credentials, e \in EmailInputs, ok \in BOOLEAN,
          br \in {"paid", "throws"} : CreateCheckoutSession(c, e, ok, br)
    \/ /\ Len(wishlist) < SelfMaxWishlist
       /\ \E c \in Credentials, e \in EmailInputs :
              PostWishlist(c, e, toHexString(1))
    \/ \E c \in Credentials, e \in EmailInputs : GetWishlist(c, e)
    \/ /\ Len(reviews) < SelfMaxReviews
       /\ \E c \in Credentials, e \in EmailInputs, r \in {10, 50} :
              PostReviews(c, toHexString(1), e, r)
    \/ \E c \in Credentials, e \in EmailInputs : GetMyBooks(c, e)

SpecSelf == Init /\ [][NextSelf]_vars

\* Books and the aggregate the review handler keeps on them.
ReviewMaxBooks == 1
ReviewMaxReviews == 3

NextReview ==
    \/ /\ Len(books) < ReviewMaxBooks
       /\ \E c \in Emails, body \in BookBodies : PostBooks(c, body)
    \/ \E c \in Emails, id \in PlainIdInputs(ReviewMaxBooks),
          body \in PatchBodies : PatchBooks(c, id, body)
    \/ \E c \in Emails, id \in PlainIdInputs(ReviewMaxBooks),
          st \in {"published", "unpublished"} : PatchBookStatus(c, id, st)
    \/ \E c \in Emails, id \in PlainIdInputs(ReviewMaxBooks) :
           DeleteBook(c, id)
    \/ /\ Len(reviews) < ReviewMaxReviews
       /\ \E c \in Emails, id \in IdInputs(ReviewMaxBooks) \cup {NoId},
             r \in RatingInputs : PostReviews(c, id, c, r)

SpecReview == Init /\ [][NextReview]_vars

\* Who may review: orders, their payment, reviews and the eligibility probe.
EligibleMaxBooks == 1
EligibleMaxOrders == 1
EligibleMaxReviews == 2

NextEligible ==
    \/ /\ Len(books) < EligibleMaxBooks
       /\ PostBooks("a@x", PlainBook)
    \/ /\ Len(orders) < EligibleMaxOrders
       /\ \E c \in Emails : PostOrders(c, OrderBody(toHexString(1), c))
    \/ \E c \in Emails, id \in PlainIdInputs(EligibleMaxOrders) :
           PaymentSuccess(c, id, Absent, "none")
    \/ /\ Len(reviews) < EligibleMaxReviews
       /\ \E c \in Emails, r \in {10, 50} :
              PostReviews(c, toHexString(1), c, r)
    \/ \E id \in IdInputs(EligibleMaxBooks), e \in Emails :
           UserCanReview(id, e)

SpecEligible == Init /\ [][NextEligible]_vars

\* Registration and role changes.  Every credential calls the role routes;
\* registration names any email, whatever role its body asks for.
UsersMaxUsers == 3
RoleInputs == {Absent, "admin"}
AllCredentials == Credentials \cup Newcomers

NextUsers ==
    \/ \E e \in Emails \cup Newcomers, r \in RoleInputs :
           /\ Len(users) < UsersMaxUsers \/ getUserRole(e) # "none"
           /\ PostUsers(e, r)
    \/ \E c \in AllCredentials, id \in PlainIdInputs(UsersMaxUsers) :
           MakeLibrarian(c, id)
    \/ \E c \in AllCredentials, id \in PlainIdInputs(UsersMaxUsers) :
           MakeAdmin(c, id)

SpecUsers == Init /\ [][NextUsers]_vars

\* The gates: every gated route.  A route is called with no token, with a
\* rejected token and with tokens bound to an administrator, to a user an
\* administrator may make librarian and to an email without a user record;
\* the routes behind verifyJWT alone that write are called without a valid
\* token only, but for orders, which an administrator places and anyone
\* cancels.  A request names the caller's own email and the first document
\* of a collection.
GateMaxBooks == 1
GateMaxOrders == 1
Rejected == {"missing", "invalid"}
GateCredentials == Credentials \cup {"c@x"}
Own(c) == IF verifyJWT(c) THEN c ELSE "a@x"

NextGateJwt ==
    \/ \E c \in Rejected \cup {"a@x"} :
           /\ ~Passes("jwt", c) \/ Len(orders) < GateMaxOrders
           /\ PostOrders(c, OrderBody(toHexString(1), Own(c)))
    \/ \E c \in GateCredentials :
           \/ GetUserRole(c, Own(c))
           \/ GetOrder(c, toHexString(1))
           \/ GetMyOrders(c, Own(c))
           \/ GetMyInvoices(c, Own(c))
           \/ OrderCancel(c, toHexString(1))
           \/ CreateCheckoutSession(c, Own(c), TRUE, "paid")
           \/ GetWishlist(c, Own(c))
    \/ \E c \in Rejected :
           \/ PaymentSuccess(c, toHexString(1), Absent, "none")
           \/ PostWishlist(c, Own(c), toHexString(1))
           \/ DeleteWishlist(c, toHexString(1))
           \/ PostReviews(c, toHexString(1), Own(c), 50)

NextGateLibrarian ==
    \E c \in GateCredentials :
        \/ /\ ~Passes("librarian", c) \/ Len(books) < GateMaxBooks
           /\ PostBooks(c, PlainBook)
        \/ GetMyBooks(c, Own(c))
        \/ PatchBookStatus(c, toHexString(1), "unpublished")
        \/ PatchBooks(c, toHexString(1), [status |-> "unpublished"])
        \/ GetOrders(c)
        \/ UpdateStatus(c, toHexString(1), "shipped")

NextGateAdmin ==
    \E c \in GateCredentials :
        \/ GetUsers(c)
        \/ MakeLibrarian(c, toHexString(2))
        \/ MakeAdmin(c, toHexString(1))
        \/ GetBooksAll(c)
        \/ DeleteBook(c, toHexString(1))

NextGate == NextGateJwt \/ NextGateLibrarian \/ NextGateAdmin

SpecGate == Init /\ [][NextGate]_vars

\* The public catalogue: books of either status, with and without titles,
\* categories and ratings, one of them rated by a review, and every listing
\* query.
CatalogMaxBooks == 2
CatalogMaxReviews == 1
CatalogBodies ==
    {[status |-> "published", bookTitle |-> <<"A", "b">>,
      authorName |-> <<"c">>, category |-> "fiction", rating |-> 45],
     [status |-> "published", bookTitle |-> <<"c", "a">>,
      category |-> "science"],
     [status |-> "unpublished", bookTitle |-> <<"A", "b">>,
      category |-> "fiction", rating |-> 50]}
NoQuery == [search |-> << >>, category |-> Absent, rating |-> Absent,
            page |-> AbsentNum, size |-> AbsentNum]
\* Every combination of a search text, a category, a minimum rating, a page
\* and a size, and the parameter values the handler treats apart.
Queries ==
    [search : {<< >>, <<"a">>}, category : {Absent, "fiction"},
     rating : {Absent, "4"}, page : {AbsentNum, 1}, size : {AbsentNum, 1}]
    \cup {[NoQuery EXCEPT !.search = t] : t \in {<<"B", "c">>, Undefined}}
    \cup {[NoQuery EXCEPT !.category = "undefined"]}
    \cup {[NoQuery EXCEPT !.rating = t] : t \in {"0", "0.0", "abc"}}

NextCatalog ==
    \/ /\ Len(books) < CatalogMaxBooks
       /\ \E body \in CatalogBodies : PostBooks("a@x", body)
    \/ /\ Len(reviews) < CatalogMaxReviews
       /\ PostReviews("a@x", toHexString(1), "a@x", 50)
    \/ \E q \in Queries : GetBooks(q)

SpecCatalog == Init /\ [][NextCatalog]_vars

\* Librarians and their books: an administrator makes the user a
\* librarian; both add books, whose bodies name no seller, the caller or
\* the other one as seller; both place orders, list orders and edit books.
LibMaxBooks == 2
LibMaxOrders == 1
SellerBodies ==
    {PlainBook} \cup {[status |-> "published", seller_email |-> e] :
                        e \in Emails}
\* The status a body of PATCH /books/status/:id carries.
BookStatusInputs == {"published", "unpublished", "archived", Absent}

NextLibrarian ==
    \/ MakeLibrarian("a@x", toHexString(2))
    \/ /\ Len(books) < LibMaxBooks
       /\ \E c \in Emails, body \in SellerBodies : PostBooks(c, body)
    \/ /\ Len(orders) < LibMaxOrders
       /\ \E c \in Emails, i \in 1..LibMaxBooks :
              PostOrders(c, OrderBody(toHexString(i), c))
    \/ \E c \in Emails : GetOrders(c)
    \/ \E e \in Emails : LibrarianOrders(e)
    \/ \E c \in Emails, id \in PlainIdInputs(LibMaxBooks) :
           PatchBooks(c, id, [status |-> "unpublished"])
    \/ \E c \in Emails, id \in PlainIdInputs(LibMaxBooks),
          st \in BookStatusInputs : PatchBookStatus(c, id, st)

SpecLibrarian == Init /\ [][NextLibrarian]_vars

\* Wishlist requests that overlap: any number of them, up to the bound, is
\* in flight between its findOne and its insertOne.
WishMaxPending == 2
WishMaxWishlist == 2

NextWishlist ==
    \/ /\ Len(pending) < WishMaxPending
       /\ Len(wishlist) + Len(pending) < WishMaxWishlist
       /\ \E c \in Credentials, e \in Emails, i \in 1..WishMaxWishlist :
              PostWishlistFind(c, e, toHexString(i))
    \/ \E k \in 1..Len(pending) : PostWishlistInsert(k)
    \/ \E c \in Emails, id \in PlainIdInputs(WishMaxWishlist) :
           DeleteWishlist(c, id)

SpecWishlist == Init /\ [][NextWishlist]_vars

\* Overlapping review submissions for one book: every step of a request in
\* flight may run before or after every step of another.  A client learns
\* the id of a book from the server, so reviews address stored books.
RaceMaxBooks == 1
RaceMaxReviews == 2
RaceMaxPending == 2

NextRace ==
    \/ /\ Len(books) < RaceMaxBooks
       /\ \E body \in BookBodies : PostBooks("a@x", body)
    \/ /\ Len(reviews) < RaceMaxReviews
       /\ Len(pending) < RaceMaxPending
       /\ \E c \in Emails, id \in PlainIdInputs(RaceMaxBooks),
             r \in RaceRatings :
              /\ ObjectIdThrows(id) \/ LiveBook(ObjectId(id))
              /\ PostReviewsInsert(c, id, c, r)
    \/ \E k \in 1..Len(pending) : PostReviewsFind(k)
    \/ \E k \in 1..Len(pending) : PostReviewsUpdateBook(k)

SpecRace == Init /\ [][NextRace]_vars

\* Every route of the model.
Next ==
    \/ NextOrder
    \/ NextStatus
    \/ NextDelete
    \/ NextSelf
    \/ NextReview
    \/ NextEligible
    \/ NextUsers
    \/ NextGate
    \/ NextCatalog
    \/ NextLibrarian
    \/ NextWishlist
    \/ NextRace

Spec == Init /\ [][Next]_vars

\* -------------------------------------------------- order lifecycle claims
\* The order a request addresses by its path id, when there is one.
Addressed == ~ObjectIdThrows(req'.id) /\ LiveOrder(ObjectId(req'.id))
\* Two order documents that differ at most in the fields of S.
SameBut(o1, o2, S) == \A f \in DOMAIN o1 : f \in S \/ o1[f] = o2[f]
\* Every order but number i is what it was, and no order came or went.
OthersKept(i) ==
    /\ Len(orders') = Len(orders)
    /\ \A j \in 1..Len(orders) : j # i => orders'[j] = orders[j]

\* C6: PATCH /orders/cancel/:id and PATCH /orders/payment-success/:orderId
\* change an order only for the caller whose bound email is the order's
\* purchaser email; any other authenticated caller gets 403 and the order
\* keeps its status and payment_status.
C6_PurchaserOnly ==
    [][ ( /\ req'.route \in {"PATCH /orders/cancel/:id",
                             "PATCH /orders/payment-success/:orderId"}
          /\ verifyJWT(req'.cred)
          /\ Addressed
          /\ orders[ObjectId(req'.id)].email # req'.cred )
        => ( /\ resp'.status = 403
             /\ orders' = orders ) ]_vars

\* C16: every order POST /orders inserts is stored with status = pending
\* and payment_status = unpaid, whatever the request body carries.
C16_InsertedPendingUnpaid ==
    (req.route = "POST /orders" /\ resp.reason = "inserted")
    => /\ LiveOrder(resp.n1)
       /\ orders[resp.n1].status = "pending"
       /\ orders[resp.n1].payment_status = "unpaid"

\* C16 witness: an order whose body said delivered and paid has been
\* inserted.
C16_Witness ==
    /\ req.route = "POST /orders"
    /\ req.str = "paid"
    /\ req.ext = "delivered"
    /\ resp.reason = "inserted"
    /\ LiveOrder(resp.n1)
    /\ orders[resp.n1].email = req.cred

\* C21: every request that passes the gates receives a response, also when
\* the parsing of a malformed id or a broker call throws inside the
\* handler: the exception is mapped to an error response, a malformed id to
\* 400.
C21_AlwaysAnswered ==
    [][ ( /\ verifyJWT(req'.cred)
          /\ resp'.status # 403 )
        => ( /\ resp'.status # 0
             /\ (req'.id = Malformed /\ req'.ext # "throws")
                => resp'.status = 400 ) ]_vars

\* C24: every stored order whose status is processing has payment_status
\* paid.
C24_ProcessingIsPaid ==
    \A i \in 1..Len(orders) :
        (LiveOrder(i) /\ orders[i].status = "processing")
        => orders[i].payment_status = "paid"

\* C24 witness: PATCH /orders/pay/:id has modified an order, which stands
\* at processing.
C24_Witness ==
    /\ req.route = "PATCH /orders/pay/:id"
    /\ resp.n2 = 1
    /\ LiveOrder(ObjectId(req.id))
    /\ orders[ObjectId(req.id)].status = "processing"
    /\ orders[ObjectId(req.id)].payment_status = "paid"

\* C25: an order's payment_status becomes paid only in a payment
\* confirmation (PATCH /orders/payment-success/:orderId) for that same order
\* that passed its settlement check; no other route writes paid.
C25_PaidOnlyBySettlement ==
    [][ \A i \in 1..Len(orders') :
          ( /\ LiveOrder(i)'
            /\ orders'[i].payment_status = "paid"
            /\ (i > Len(orders) \/ orders[i].payment_status # "paid") )
          => ( /\ req'.route = "PATCH /orders/payment-success/:orderId"
               /\ ~ObjectIdThrows(req'.id)
               /\ ObjectId(req'.id) = i
               /\ SettlementCheck(req'.str, req'.ext) = "go" ) ]_vars

\* C7: payment confirmation moves the addressed order to (processing, paid)
\* exactly when no sessionId is supplied or the broker reports the session
\* paid; otherwise the request is rejected and the order is not mutated.
C7_PaidIffSettled ==
    [][ ( /\ req'.route = "PATCH /orders/payment-success/:orderId"
          /\ verifyJWT(req'.cred)
          /\ Addressed )
        => LET i == ObjectId(req'.id)
               settled == req'.str = Absent \/ req'.ext = "paid"
           IN  /\ settled => /\ orders'[i].status = "processing"
                             /\ orders'[i].payment_status = "paid"
                             /\ resp'.status = 200
               /\ ~settled => /\ orders' = orders
                              /\ resp'.status \in {400, 500}
               /\ OthersKept(i) ]_vars

\* C7 witness: a confirmation carrying a session the broker reports paid
\* has been accepted.
C7_Witness ==
    /\ req.route = "PATCH /orders/payment-success/:orderId"
    /\ req.str = "cs_1"
    /\ req.ext = "paid"
    /\ resp.status = 200
    /\ LiveOrder(ObjectId(req.id))
    /\ orders[ObjectId(req.id)].status = "processing"
    /\ orders[ObjectId(req.id)].payment_status = "paid"
    /\ orders[ObjectId(req.id)].stripeSessionId = "cs_1"

\* C8: cancelling an existing order leaves it (cancelled, cancelled) whatever
\* its state was, and changes no other field and no other order.
C8_CancelAlways ==
    [][ ( /\ req'.route = "PATCH /orders/cancel/:id"
          /\ verifyJWT(req'.cred)
          /\ Addressed )
        => LET i == ObjectId(req'.id)
           IN  /\ orders'[i].status = "cancelled"
               /\ orders'[i].payment_status = "cancelled"
               /\ SameBut(orders'[i], orders[i], {"status", "payment_status"})
               /\ OthersKept(i) ]_vars

\* C8 witness: an order that had been paid through a broker session has been
\* cancelled.
C8_Witness ==
    /\ req.route = "PATCH /orders/cancel/:id"
    /\ resp.status = 200
    /\ LiveOrder(ObjectId(req.id))
    /\ orders[ObjectId(req.id)].stripeSessionId = "cs_1"
    /\ orders[ObjectId(req.id)].status = "cancelled"
    /\ orders[ObjectId(req.id)].payment_status = "cancelled"

\* C9: the fulfillment update writes nothing but the status of the addressed
\* order, only to pending, shipped, delivered or cancelled, accepts each of
\* the four from any prior status, and answers 400 to any other value.
C9_StatusOnly ==
    [][ req'.route = "PATCH /orders/update-status/:id"
        => LET four == {"pending", "shipped", "delivered", "cancelled"}
               pass == Passes("librarian", req'.cred)
           IN  /\ Len(orders') = Len(orders)
               /\ \A j \in 1..Len(orders) :
                      /\ SameBut(orders'[j], orders[j], {"status"})
                      /\ orders'[j] # orders[j] =>
                             /\ pass
                             /\ j = ObjectId(req'.id)
                             /\ req'.str \in four
               /\ (pass /\ req'.str \notin four) =>
                      /\ resp'.status = 400
                      /\ orders' = orders
               /\ (pass /\ req'.str \in four /\ Addressed) =>
                      /\ orders'[ObjectId(req'.id)].status = req'.str
                      /\ resp'.status = 200
               /\ <<users, books, reviews, wishlist>>' =
                      <<users, books, reviews, wishlist>> ]_vars

\* C9 witness: a paid order in processing has been set back to pending, its
\* payment_status still paid.
C9_Witness ==
    /\ req.route = "PATCH /orders/update-status/:id"
    /\ req.str = "pending"
    /\ resp.status = 200
    /\ LiveOrder(ObjectId(req.id))
    /\ orders[ObjectId(req.id)].status = "pending"
    /\ orders[ObjectId(req.id)].payment_status = "paid"

\* ------------------------------------------------------ self-scope claim
SelfScopedRoutes ==
    {"GET /users/role/:email", "POST /orders", "GET /my-orders/:email",
     "GET /my-invoices/:email", "POST /create-checkout-session",
     "POST /wishlist", "GET /wishlist/:email", "POST /reviews",
     "GET /my-books/:email"}

\* C5: on every self-scoped route a request whose credential is valid and
\* bound to an email other than the email of its path or body is answered
\* 403 and no collection changes.
C5_SelfScoped ==
    [][ ( /\ req'.route \in SelfScopedRoutes
          /\ verifyJWT(req'.cred)
          /\ req'.email # req'.cred )
        => ( /\ resp'.status = 403
             /\ db' = db ) ]_vars

\* C5 witness: an order placed in another user's name has been refused
\* while the collections already hold documents.
C5_Witness ==
    /\ req.route = "POST /orders"
    /\ verifyJWT(req.cred)
    /\ req.email \in Emails
    /\ req.email # req.cred
    /\ resp.status = 403
    /\ Len(wishlist) > 0
    /\ orders = << >>

\* ------------------------------------------------------------- user claims
UniqueEmails ==
    \A i, j \in 1..Len(users) : users[i].email = users[j].email => i = j

\* C12: POST /users is idempotent per email: the users collection holds at
\* most one record per email; registering an email that already exists
\* answers insertedId = null with an "already exists" message and leaves
\* the stored record, its current role included, as it was; a first
\* registration stores role = user whatever role the body carries.
C12_IdempotentRegistration ==
    /\ []UniqueEmails
    /\ [][ req'.route = "POST /users"
           => IF \E i \in 1..Len(users) : users[i].email = req'.email
              THEN /\ resp'.n1 = 0
                   /\ resp'.reason = "User already exists"
                   /\ users' = users
              ELSE users' = Append(users, [email |-> req'.email,
                                           role |-> "user"]) ]_vars

\* C12 witness: an email registered with a body asking for role admin,
\* promoted to librarian since, has been registered again, and the record
\* still says librarian.
C12_Witness ==
    /\ req.route = "POST /users"
    /\ req.email \in Newcomers
    /\ req.str = "admin"
    /\ resp.reason = "User already exists"
    /\ getUserRole(req.email) = "librarian"

LibrarianRoutes ==
    {"POST /books", "GET /my-books/:email", "PATCH /books/status/:id",
     "PATCH /books/:id", "GET /orders", "PATCH /orders/update-status/:id"}
AdminRoutes ==
    {"GET /users", "PATCH /users/make-librarian/:id",
     "PATCH /users/make-admin/:id", "GET /books/all",
     "DELETE /books/delete/:id"}

\* C14: on every gated route a missing or unverifiable token is answered
\* 401; on a librarian-or-admin route a bound email without a user record
\* or with a role outside {librarian, admin} is answered 403; on an
\* admin-only route a bound email without a user record or with a role
\* other than admin is answered 403; a rejected request modifies no
\* collection.
C14_GateOrder ==
    [][ LET role == getUserRole(req'.cred)
            rejected == /\ resp'.status \in {401, 403}
                        /\ db' = db
        IN  /\ ~verifyJWT(req'.cred)
               => resp'.status = 401 /\ rejected
            /\ ( /\ verifyJWT(req'.cred)
                 /\ req'.route \in LibrarianRoutes
                 /\ role \notin {"librarian", "admin"} )
               => resp'.status = 403 /\ rejected
            /\ ( /\ verifyJWT(req'.cred)
                 /\ req'.route \in AdminRoutes
                 /\ role # "admin" )
               => resp'.status = 403 /\ rejected ]_vars

\* C14 witness: a librarian has been refused the deletion of a stored book
\* on the admin-only route.
C14_Witness ==
    /\ req.route = "DELETE /books/delete/:id"
    /\ getUserRole(req.cred) = "librarian"
    /\ resp.status = 403
    /\ LiveBook(ObjectId(req.id))

\* ---------------------------------------------------------- listing claim
\* The stored books a listing request selects: published, and, for each
\* condition the request carries, title or author containing the search
\* text, the category asked for, a rating the minimum-rating filter lets
\* through.
Selected(r) ==
    {i \in 1..Len(books) :
        /\ LiveBook(i)
        /\ books[i].status = "published"
        /\ r.ext.search \in {<< >>, Undefined}
           \/ RegexI(books[i].bookTitle, r.ext.search)
           \/ RegexI(books[i].authorName, r.ext.search)
        /\ r.ext.category \in {Absent, "undefined", ""}
           \/ books[i].category = r.ext.category
        /\ r.ext.rating \in {Absent, "", "0"}
           \/ GteRating(books[i], parseFloat(r.ext.rating))}

\* C15: the count GET /books returns is the number of stored books that
\* match the compound filter the page is selected with (status = published
\* and the optional search, category and minimum-rating conditions),
\* whatever the page and the size; the page is a slice of those books.
C15_CountOfSameFilter ==
    [][ req'.route = "GET /books"
        => LET n == Cardinality(Selected(req'))
               from == PageOf(req'.ext) * SizeOf(req'.ext)
               rest == IF n > from THEN n - from ELSE 0
           IN  /\ resp'.status = 200
               /\ resp'.n1 = n
               /\ resp'.ids \subseteq Selected(req')
               /\ Cardinality(resp'.ids) =
                      IF rest < SizeOf(req'.ext) THEN rest
                      ELSE SizeOf(req'.ext) ]_vars

\* C15 witness: with two published books of which one matches the search,
\* the second page of size 1 is empty and the count is 1.
C15_Witness ==
    /\ req.route = "GET /books"
    /\ req.ext.search = <<"a">>
    /\ req.ext.category = "fiction"
    /\ req.ext.page = 1
    /\ req.ext.size = 1
    /\ Cardinality({i \in 1..Len(books) :
                       LiveBook(i) /\ books[i].status = "published"}) = 2
    /\ resp.n1 = 1
    /\ resp.ids = {}

\* -------------------------------------------------------- librarian claims
\* The books a librarian owns: the bound email POST /books recorded is the
\* librarian's.
OwnedBy(email) ==
    {b \in 1..Len(books) : LiveBook(b) /\ books[b].librarianEmail = email}

\* C17: the order list returned to a librarian is exactly the stored orders
\* whose bookId is the id of a book that librarian owns.
C17_OrdersOfOwnBooks ==
    [][ LET listed(email) ==
                resp'.ids = {i \in 1..Len(orders) :
                                /\ LiveOrder(i)
                                /\ \E b \in OwnedBy(email) :
                                       orders[i].bookId = toHexString(b)}
        IN  /\ ( /\ req'.route = "GET /orders"
                 /\ verifyJWT(req'.cred)
                 /\ getUserRole(req'.cred) = "librarian" )
               => resp'.status = 200 /\ listed(req'.cred)
            /\ ( /\ req'.route = "GET /librarian-orders/:email"
                 /\ getUserRole(req'.email) = "librarian" )
               => resp'.status = 200 /\ listed(req'.email) ]_vars

\* The book a request addresses by its path id, when there is one.
AddressedBook == ~ObjectIdThrows(req'.id) /\ LiveBook(ObjectId(req'.id))
BookStatuses == {"published", "unpublished"}

\* C19: PATCH /books/:id and PATCH /books/status/:id modify a book only
\* when the caller is an admin or the librarian who owns it; a librarian
\* whose bound email is not the owner's cannot change the book.
C19_OwnerOrAdminEdits ==
    [][ ( /\ req'.route \in {"PATCH /books/:id", "PATCH /books/status/:id"}
          /\ books' # books )
        => \/ getUserRole(req'.cred) = "admin"
           \/ /\ getUserRole(req'.cred) = "librarian"
              /\ AddressedBook
              /\ books[ObjectId(req'.id)].librarianEmail = req'.cred ]_vars

\* C20: every stored book's status is published or unpublished; PATCH
\* /books/status/:id with another status, or with none, is answered 400
\* and changes no book; a status update addressed to an id that matches no
\* book is answered 404, not success.
C20_StatusEnum ==
    /\ [](\A b \in 1..Len(books) :
              books[b].live => books[b].status \in BookStatuses)
    /\ [][ ( /\ req'.route = "PATCH /books/status/:id"
             /\ Passes("librarian", req'.cred) )
           => /\ req'.str \notin BookStatuses
                 => resp'.status = 400 /\ books' = books
              /\ ( /\ req'.str \in BookStatuses
                   /\ ~ObjectIdThrows(req'.id)
                   /\ ~LiveBook(ObjectId(req'.id)) )
                 => resp'.status = 404 /\ books' = books ]_vars

\* ----------------------------------------------------------- wishlist claim
\* Entry i of the wishlist is for the pair (userEmail, bookId).
WishFor(i, userEmail, bookId) ==
    /\ LiveWish(i)
    /\ wishlist[i].userEmail = userEmail
    /\ wishlist[i].bookId = bookId

\* C18: in every reachable state, also when POST /wishlist requests for the
\* same (userEmail, bookId) overlap and their find and insert steps
\* interleave, the wishlist holds at most one entry per pair; a request for
\* a pair that already exists is rejected and inserts nothing.
C18_OneEntryPerPair ==
    /\ [](\A i, j \in 1..Len(wishlist) :
              (LiveWish(j) /\ WishFor(i, wishlist[j].userEmail,
                                      wishlist[j].bookId)) => i = j)
    /\ [][ ( /\ req'.route = "POST /wishlist"
             /\ Len(pending') < Len(pending)
             /\ \E i \in 1..Len(wishlist) :
                    WishFor(i, req'.email, req'.id) )
           => resp'.status = 400 /\ wishlist' = wishlist ]_vars

\* --------------------------------------------------------- deletion claim
\* The orders that reference book b: their bookId is the book's id.
OrdersOfBook(b) ==
    {i \in 1..Len(orders) : LiveOrder(i) /\ orders[i].bookId = toHexString(b)}

\* C10: deleting an existing book that K orders reference deletes the book
\* and exactly those K orders, leaves the other orders untouched and reports
\* bookDeleted = 1 and ordersDeleted = K.
C10_Cascade ==
    [][ ( /\ req'.route = "DELETE /books/delete/:id"
          /\ Passes("admin", req'.cred)
          /\ ~ObjectIdThrows(req'.id)
          /\ LiveBook(ObjectId(req'.id)) )
        => LET b == ObjectId(req'.id)
               K == OrdersOfBook(b)
           IN  /\ ~books'[b].live
               /\ Len(orders') = Len(orders)
               /\ \A i \in 1..Len(orders) :
                      IF i \in K THEN ~orders'[i].live
                      ELSE orders'[i] = orders[i]
               /\ resp'.status = 200
               /\ resp'.n1 = 1
               /\ resp'.n2 = Cardinality(K) ]_vars

\* C11: DELETE /books/delete/:id with an id that matches no stored book
\* answers 404 and leaves the orders collection as it was, also when orders
\* exist whose bookId is that id.
C11_NotFoundKeepsOrders ==
    [][ ( /\ req'.route = "DELETE /books/delete/:id"
          /\ Passes("admin", req'.cred)
          /\ ~ObjectIdThrows(req'.id)
          /\ ~LiveBook(ObjectId(req'.id)) )
        => ( /\ resp'.status = 404
             /\ orders' = orders ) ]_vars

\* ----------------------------------------------------------- review claims
\* t is a tenth nearest to total / n.
NearestTenth(t, total, n) ==
    /\ 2 * (10 * total - t * n) <= n
    /\ 2 * (t * n - 10 * total) <= n

\* Book b carries the aggregate of the reviews rs hold for it.
Aggregated(book, rs, b) ==
    LET S == ReviewsOf(rs, b)
    IN  IF S = {}
        THEN book.rating = AbsentNum /\ book.reviewCount \in {AbsentNum, 0}
        ELSE /\ NearestTenth(book.rating, SumRatings(rs, S), Cardinality(S))
             /\ book.reviewCount = Cardinality(S)

\* C22: when review submissions for one book overlap, the update step of a
\* request writes the average that request computed from its own read of
\* the reviews, unguarded, also when reviews stored since are missing from
\* it; so after all have completed the rating can differ from the mean of
\* the stored reviews.
C22_StaleAverageWritten ==
    [][ ( /\ req'.route = "POST /reviews"
          /\ resp'.reason = "inserted"
          /\ Len(pending') < Len(pending)
          /\ LiveBook(ObjectId(req'.id)) )
        => \E k \in 1..Len(pending) :
              /\ pending[k].insertedId = resp'.n1
              /\ pending[k].step = "read"
              /\ books'[ObjectId(req'.id)].rating =
                     newAverageRating(SubSeq(reviews, 1, pending[k].seen),
                                      ObjectId(req'.id)) ]_vars

\* C22 witness: two submissions for book 1 have both completed, none is in
\* flight, and the book's rating is not the mean of its two reviews.
C22_Witness ==
    /\ pending = << >>
    /\ req.route = "POST /reviews"
    /\ resp.status = 200
    /\ LiveBook(1)
    /\ Cardinality(ReviewsOf(reviews, 1)) = 2
    /\ books[1].reviewCount = 2
    /\ ~NearestTenth(books[1].rating,
                     SumRatings(reviews, ReviewsOf(reviews, 1)), 2)

\* C23: once every submission has completed, the reviewCount of a reviewed
\* book that existed throughout is the number of reviews stored for it,
\* under every interleaving of the submissions' steps.
C23_CountAfterAll ==
    pending = << >>
    => \A b \in 1..Len(books) :
          (LiveBook(b) /\ ReviewsOf(reviews, b) # {})
          => books[b].reviewCount = Cardinality(ReviewsOf(reviews, b))

\* C1: after the k-th accepted review of a book in a row (whole-number
\* ratings, no other write to the book in between) the book's rating is the
\* mean of the k ratings to one decimal and its reviewCount is k: the first
\* review of a book brings the aggregate about and every later one keeps it.
C1_RunningAverage ==
    [][ ( /\ req'.route = "POST /reviews"
          /\ resp'.status = 200
          /\ req'.num % 10 = 0
          /\ LiveBook(ObjectId(req'.id))
          /\ \/ ReviewsOf(reviews, ObjectId(req'.id)) = {}
             \/ Aggregated(books[ObjectId(req'.id)], reviews,
                           ObjectId(req'.id)) )
        => LET b == ObjectId(req'.id)
               S == ReviewsOf(reviews, b)
               k == Cardinality(S) + 1
               total == SumRatings(reviews, S) + req'.num \div 10
           IN  /\ NearestTenth(books'[b].rating, total, k)
               /\ books'[b].reviewCount = k ]_vars

\* C2: every stored book's rating is the one-decimal mean of the reviews
\* stored for it and its reviewCount is their number.
C2_AggregateInvariant ==
    \A b \in 1..Len(books) : books[b].live => Aggregated(books[b], reviews, b)

\* C3: the reviews collection holds at most one review per (bookId, userId).
C3_OneReviewPerUser ==
    \A i, j \in 1..Len(reviews) :
        (reviews[i].bookId = reviews[j].bookId
         /\ reviews[i].userId = reviews[j].userId) => i = j

\* C4: POST /reviews inserts a review for (book, user) only if, at the time
\* of the request, an order of that user for that book is paid.
C4_PaidOrderNeeded ==
    [][ ( /\ req'.route = "POST /reviews"
          /\ reviews' # reviews )
        => \E i \in 1..Len(orders) :
               /\ LiveOrder(i)
               /\ orders[i].bookId = toHexString(ObjectId(req'.id))
               /\ orders[i].email = req'.email
               /\ orders[i].payment_status = "paid" ]_vars

====
